---- MODULE Spec2Model ----
(***************************************************************************)
(* Component Test & Availability Dashboard (src/MES/app.py).               *)
(*                                                                         *)
(* One run of the script over one uploaded table: header clean-up,         *)
(* category assignment, sidebar selection, the filters, the derived        *)
(* "Available In" column and every table / chart the script emits.         *)
(*                                                                         *)
(* Text is modelled as a sequence of one-character strings, so that        *)
(* str.strip / str.replace / str.isnumeric / str.upper / str.title and     *)
(* pandas.to_numeric are computed character by character.                  *)
(***************************************************************************)
EXTENDS Integers, Sequences, FiniteSets, TLC

(***************************************************************************)
(* Bounds of the model.                                                    *)
(***************************************************************************)
\* Largest number of rows of an uploaded table.
MaxRows == 3

(***************************************************************************)
(* Characters and Python's str methods.                                    *)
(***************************************************************************)
Digits == {"0", "1", "2", "3", "4", "5", "6", "7", "8", "9"}

\* The whitespace of the texts of the model: the blank.
Whitespace == {" "}

LowerLetters ==
    <<"a","b","c","d","e","f","g","h","i","j","k","l","m",
      "n","o","p","q","r","s","t","u","v","w","x","y","z">>

UpperLetters ==
    <<"A","B","C","D","E","F","G","H","I","J","K","L","M",
      "N","O","P","Q","R","S","T","U","V","W","X","Y","Z">>

Range(s) == {s[i] : i \in 1..Len(s)}

IsLower(c) == \E i \in 1..26 : LowerLetters[i] = c

IsUpper(c) == \E i \in 1..26 : UpperLetters[i] = c

IsCased(c) == IsLower(c) \/ IsUpper(c)

ToUpper(c) ==
    IF IsLower(c) THEN UpperLetters[CHOOSE i \in 1..26 : LowerLetters[i] = c] ELSE c

ToLower(c) ==
    IF IsUpper(c) THEN LowerLetters[CHOOSE i \in 1..26 : UpperLetters[i] = c] ELSE c

\* First position >= i whose character is not in S (Len(s)+1 when none).
SkipWhile(s, i, S) ==
    CHOOSE j \in i..(Len(s) + 1) :
        /\ \A k \in i..(j - 1) : s[k] \in S
        /\ (j = Len(s) + 1 \/ s[j] \notin S)

\* Last position <= i whose character is not in S (0 when none).
SkipBack(s, i, S) ==
    CHOOSE j \in 0..i :
        /\ \A k \in (j + 1)..i : s[k] \in S
        /\ (j = 0 \/ s[j] \notin S)

\* str.strip()
strip(s) ==
    LET a == SkipWhile(s, 1, Whitespace)
        b == SkipBack(s, Len(s), Whitespace)
    IN  IF a > b THEN <<>> ELSE SubSeq(s, a, b)

\* str.replace(c, ""), c a single character
replace(s, c) == SelectSeq(s, LAMBDA x : x # c)

\* str.isnumeric(): not empty and every character numeric
isnumeric(s) == Len(s) > 0 /\ \A i \in 1..Len(s) : s[i] \in Digits

\* str.upper()
upper(s) == [i \in 1..Len(s) |-> ToUpper(s[i])]

\* str.title(): a cased character is upper-cased when the character before it
\* is not cased, lower-cased otherwise.
title(s) ==
    [i \in 1..Len(s) |->
        IF i = 1 \/ ~IsCased(s[i - 1]) THEN ToUpper(s[i]) ELSE ToLower(s[i])]

\* Python's `sub in s`
contains(s, sub) ==
    \E i \in 1..(Len(s) - Len(sub) + 1) : SubSeq(s, i, i + Len(sub) - 1) = sub

(***************************************************************************)
(* Cell values.  A text cell is a sequence of characters; the missing      *)
(* value (NaN, an empty cell) and Python's None are one-element sequences  *)
(* that no text equals.                                                    *)
(***************************************************************************)
NaN == <<"NaN">>

None == <<"None">>

\* str(value): a text is itself, the missing value prints as "nan".
str(v) == IF v = NaN THEN <<"n","a","n">> ELSE v

\* pandas.to_numeric(text, errors="coerce").notna(): optional blanks, an
\* optional sign, digits with an optional decimal point (at least one digit),
\* an optional exponent with at least one digit, optional blanks, end.
to_numeric_notna(v) ==
    LET s  == str(v)
        n  == Len(s)
        a  == SkipWhile(s, 1, Whitespace)
        b  == IF a <= n /\ s[a] \in {"+", "-"} THEN a + 1 ELSE a
        c  == SkipWhile(s, b, Digits)
        d  == IF c <= n /\ s[c] = "." THEN SkipWhile(s, c + 1, Digits) ELSE c
        nd == (c - b) + (IF d > c THEN d - c - 1 ELSE 0)
        e1 == IF d <= n /\ s[d] \in {"e", "E"} THEN d + 1 ELSE d
        e2 == IF e1 > d /\ e1 <= n /\ s[e1] \in {"+", "-"} THEN e1 + 1 ELSE e1
        e3 == IF e1 > d THEN SkipWhile(s, e2, Digits) ELSE d
        e  == IF e1 > d /\ e3 > e2 THEN e3 ELSE d
        f  == SkipWhile(s, e, Whitespace)
    IN  v # NaN /\ nd > 0 /\ f = n + 1

\* str.extract(r"(\d+)") followed by to_numeric: the first run of digits as a
\* number, <<>> (missing) when the text has no digit.
DigitValue(c) == CHOOSE k \in 0..9 : <<"0","1","2","3","4","5","6","7","8","9">>[k + 1] = c

RECURSIVE DigitsToInt(_)
DigitsToInt(s) ==
    IF Len(s) = 0 THEN 0
    ELSE 10 * DigitsToInt(SubSeq(s, 1, Len(s) - 1)) + DigitValue(s[Len(s)])

extract_number(v) ==
    LET s == str(v)
        a == SkipWhile(s, 1, {c \in Range(s) : c \notin Digits})
        b == SkipWhile(s, a, Digits)
    IN  IF a > Len(s) THEN <<>> ELSE <<DigitsToInt(SubSeq(s, a, b - 1))>>

(***************************************************************************)
(* Column names.                                                           *)
(***************************************************************************)
SectionCol == <<"S","e","c","t","i","o","n">>

NomenclatureCol == <<"N","o","m","e","n","c","l","a","t","u","r","e">>

BomQtyCol == <<"B","o","m"," ","Q","t","y">>

StockCol == <<"S","t","o","c","k">>

AvailableUpToCol == <<"A","v","a","i","l","a","b","l","e"," ","U","p"," ","T","o">>

CategoryCol == <<"C","a","t","e","g","o","r","y">>

AvailableInCol == <<"A","v","a","i","l","a","b","l","e"," ","I","n">>

TestMarker == <<"(","A","/","I","/","F",")">>

(***************************************************************************)
(* Data frames: the column names in order and the rows, each with its      *)
(* index label and its cells in column order.                              *)
(***************************************************************************)
\* Position of column `name` (0 when the frame has no such column).
ColPos(columns, name) ==
    IF \E i \in 1..Len(columns) : columns[i] = name
    THEN CHOOSE i \in 1..Len(columns) :
            columns[i] = name /\ \A j \in 1..(i - 1) : columns[j] # name
    ELSE 0

HasCol(columns, name) == ColPos(columns, name) # 0

\* row[name]
Cell(columns, row, name) == row.cells[ColPos(columns, name)]

\* row.get(name, default)
Get(columns, row, name, default) ==
    IF HasCol(columns, name) THEN Cell(columns, row, name) ELSE default

(***************************************************************************)
(* with_column: df[name] = values (a new last column).                     *)
(***************************************************************************)
with_column(frame, name, values) ==
    [columns |-> Append(frame.columns, name),
     rows    |-> [i \in 1..Len(frame.rows) |->
                    [idx   |-> frame.rows[i].idx,
                     cells |-> Append(frame.rows[i].cells, values[i])]]]

\* df[name] = values, name an existing column
set_column(frame, name, values) ==
    [columns |-> frame.columns,
     rows    |-> [i \in 1..Len(frame.rows) |->
                    [idx   |-> frame.rows[i].idx,
                     cells |-> [frame.rows[i].cells
                                  EXCEPT ![ColPos(frame.columns, name)] = values[i]]]]]

\* df[mask]: the rows whose entry in the boolean mask is true, in their order
select_rows(frame, mask) ==
    LET kept == SelectSeq([i \in 1..Len(frame.rows) |-> i], LAMBDA i : mask[i])
    IN  [columns |-> frame.columns,
         rows    |-> [k \in 1..Len(kept) |-> frame.rows[kept[k]]]]

\* The values of a column, one per row
column_values(frame, name) ==
    [i \in 1..Len(frame.rows) |-> Cell(frame.columns, frame.rows[i], name)]

EmptyFrame == [columns |-> <<>>, rows |-> <<>>]

(***************************************************************************)
(* assign_categories (lines 5-21): one pass over the rows with the current *)
(* category as the only state.                                             *)
(***************************************************************************)
\* Line 14 without .replace(" ", "")
is_heading_keeping_blanks(bom_qty) == ~isnumeric(replace(bom_qty, "-"))

\* Line 14: the row is a category heading.
is_heading(bom_qty) == ~isnumeric(replace(replace(bom_qty, "-"), " "))

RECURSIVE scan_rows(_, _, _, _)
scan_rows(columns, rows, category, categories) ==
    IF rows = <<>> THEN categories
    ELSE LET row          == Head(rows)
             nomenclature == strip(str(Get(columns, row, NomenclatureCol, <<>>)))
             bom_qty      == strip(str(Get(columns, row, BomQtyCol, <<>>)))
         IN  IF is_heading(bom_qty)
             THEN scan_rows(columns, Tail(rows), upper(nomenclature),
                            Append(categories, None))
             ELSE scan_rows(columns, Tail(rows), category,
                            Append(categories, category))

assign_categories(frame) ==
    with_column(frame, CategoryCol, scan_rows(frame.columns, frame.rows, None, <<>>))

\* Line 34: df_raw.columns.str.strip().str.title()
clean_columns(columns) == [i \in 1..Len(columns) |-> title(strip(columns[i]))]

\* Lines 46 and 76: the columns whose name contains "(A/I/F)"
test_columns_of(columns) == SelectSeq(columns, LAMBDA c : contains(c, TestMarker))

(***************************************************************************)
(* Uploaded files.  Every file has the five required columns followed by   *)
(* its other columns; the families below vary one aspect of the table each *)
(* and fix the others by the row's position.                               *)
(***************************************************************************)
RequiredCols == <<SectionCol, NomenclatureCol, BomQtyCol, StockCol, AvailableUpToCol>>

T1 == <<"1","1","(","A","/","I","/","F",")">>

T2 == <<"1","2","(","A","/","I","/","F",")">>

Remarks == <<"R","e","m","a","r","k","s">>

\* The same header as a user may type it: blanks around, other letter case.
RawCols ==
    << <<" ","s","e","c","t","i","o","n">>,
       <<"N","O","M","E","N","C","L","A","T","U","R","E">>,
       <<"b","o","m"," ","q","t","y"," ">>,
       <<"S","T","O","C","K">>,
       <<"a","v","a","i","l","a","b","l","e"," ","u","p"," ","t","o">> >>

RawT1 == <<"1","1","(","a","/","i","/","f",")">>

Mech == <<"M","E","C","H">>

Elec == <<"E","L","E","C">>

Names == << <<" ","e","n","g","i","n","e"," ">>, <<"P","u","m","p">>, <<"g","e","a","r"," ","b","o","x">> >>

AvailTexts == << <<"A","P"," ","2","5">>, <<"A","P","1","0","0">>, <<"N","/","A">>, NaN >>

\* Bom Qty cells: a dash heading, plain quantities, and the texts on which
\* str.isnumeric (after removing "-" and " ") and to_numeric may differ.
BomTextsA == { <<"-">>, <<"2">>, <<"1","-","2">>, <<"1",".","5">>, NaN }

BomTextsB == { <<"-"," ","-">>, <<" ","3"," ">>, <<"-","5">>, <<"1","e","3">>, <<"1"," ","0","0","0">> }

\* Test-stage status codes other than "A" and "S", by row position.
OtherCodes == << <<"I">>, NaN, <<"F">> >>

Cycle(seq, i) == seq[((i - 1) % Len(seq)) + 1]

\* Row i with every field fixed by its position: a quantity of 2, stock 5, and
\* test-stage cells "A" in the first (i % (n+1)) of the n test columns, "S" after.
DefaultRow(i, n) ==
    [Section       |-> Mech,
     Nomenclature  |-> Cycle(Names, i),
     BomQty        |-> <<"2">>,
     Stock         |-> 5,
     AvailableUpTo |-> Cycle(AvailTexts, i),
     Tests         |-> [k \in 1..n |-> IF k <= i % (n + 1) THEN <<"A">> ELSE <<"S">>]]

\* The file with the given header and rows (index labels 0, 1, ...).
MkFile(columns, recs) ==
    [columns |-> columns,
     rows    |-> [i \in 1..Len(recs) |->
                    [idx   |-> i - 1,
                     cells |-> <<recs[i].Section, recs[i].Nomenclature, recs[i].BomQty,
                                 recs[i].Stock, recs[i].AvailableUpTo>> \o recs[i].Tests]]]

RemoveAt(seq, k) == [i \in 1..(Len(seq) - 1) |-> IF i < k THEN seq[i] ELSE seq[i + 1]]

\* The file without its k-th column.
DropColumn(file, k) ==
    [columns |-> RemoveAt(file.columns, k),
     rows    |-> [i \in 1..Len(file.rows) |->
                    [idx |-> file.rows[i].idx, cells |-> RemoveAt(file.rows[i].cells, k)]]]

\* One choice from Dom per row, for every number of rows up to MaxRows.
Choices(Dom) == UNION { [1..n -> Dom] : n \in 0..MaxRows }

\* Family 1: the Bom Qty text varies (one test column).
HeadingFiles(BomTexts) ==
    { MkFile(RequiredCols \o <<T1>>,
             [i \in DOMAIN v |-> [DefaultRow(i, 1) EXCEPT !.BomQty = v[i]]]) :
        v \in Choices(BomTexts) }

\* Family 2: headings and sections vary (one test column).
FilterFiles ==
    { MkFile(RequiredCols \o <<T1>>,
             [i \in DOMAIN v |-> [DefaultRow(i, 1) EXCEPT !.BomQty = v[i][1],
                                                          !.Section = v[i][2]]]) :
        v \in Choices({ <<"-">>, <<"2">> } \X { Mech, Elec }) }

\* Family 3: the status codes vary (two test columns around a remarks
\* column); the first row is a heading or not.
StatusPair(i, k) ==
    CASE k = 1 -> << <<"A">>, <<"A">> >>
      [] k = 2 -> << <<"A">>, <<"S">> >>
      [] k = 3 -> << <<"S">>, Cycle(OtherCodes, i) >>
      [] OTHER -> << Cycle(OtherCodes, i), Cycle(OtherCodes, i + 1) >>

StatusFiles ==
    { MkFile(RequiredCols \o <<T1, Remarks, T2>>,
             [i \in DOMAIN v |->
                 [DefaultRow(i, 2) EXCEPT
                     !.BomQty = IF h /\ i = 1 THEN <<"-">> ELSE <<"2">>,
                     !.Tests  = << StatusPair(i, v[i])[1], <<"o","k">>,
                                   StatusPair(i, v[i])[2] >>]]) :
        v \in Choices(1..4), h \in BOOLEAN }

\* Family 4: the stock and the availability vary (two test columns).
StockFiles ==
    { MkFile(RequiredCols \o <<T1, T2>>,
             [i \in DOMAIN v |-> [DefaultRow(i, 2) EXCEPT
                                     !.Stock = v[i][1],
                                     !.Tests = StatusPair(i, v[i][2])]]) :
        v \in Choices({0, 5} \X {1, 3}) }

\* Family 5: the header varies: typed with other case and blanks, no test
\* column at all, one required column missing.  The rows are a heading
\* followed by quantities.
HeaderRows(n) ==
    UNION { { [i \in 1..m |-> [DefaultRow(i, n) EXCEPT
                                  !.BomQty = IF i = 1 THEN <<"-">> ELSE <<"2">>]] } :
            m \in 0..MaxRows }

HeaderFiles ==
    { MkFile(RawCols \o <<RawT1>>, t) : t \in HeaderRows(1) }
    \cup { MkFile(RequiredCols, t) : t \in HeaderRows(0) }
    \cup { DropColumn(MkFile(RequiredCols \o <<T1>>, t), k) :
             t \in HeaderRows(1), k \in 1..Len(RequiredCols) }

\* No file chosen yet in the uploader (a file that is read has a header).
NoFile == [columns |-> <<>>, rows |-> <<>>]

Uploads ==
    HeadingFiles(BomTextsA) \cup HeadingFiles(BomTextsB) \cup FilterFiles
    \cup StatusFiles \cup StockFiles \cup HeaderFiles

(***************************************************************************)
(* State of one run of the script.                                         *)
(***************************************************************************)
VARIABLES
    pc,                 \* the next part of the script to run
    uploaded_file,      \* the table as read from the file
    df_raw,             \* line 37: cleaned header, Category column
    selected_section,   \* sidebar selections (lines 42-47)
    selected_category,
    selected_system,
    df,                 \* the working frame
    test_columns,       \* line 76
    all_system,         \* line 81
    none_system,        \* line 82
    status_counts,      \* lines 105-109
    system_availability, \* lines 125-128
    total_A,            \* line 138
    total_S,            \* line 139
    critical_components, \* line 186
    screen,             \* the names of the elements sent to the page so far
    element,            \* the element sent last, with the data it shows
    exception           \* the exception that ended the run, if any

inputs == <<uploaded_file, df_raw, selected_section, selected_category, selected_system>>

derived == <<all_system, none_system, status_counts, system_availability,
             total_A, total_S, critical_components>>

vars == <<pc, inputs, df, test_columns, derived, screen, element, exception>>

All == <<"A","l","l">>

NoException == [type |-> "none", key |-> <<>>, line |-> 0]

NoElement == [name |-> "none", kind |-> "none", data |-> <<>>]

Init ==
    /\ uploaded_file \in Uploads \cup {NoFile}
    /\ pc = "read"
    /\ df_raw = EmptyFrame
    /\ selected_section = All
    /\ selected_category = All
    /\ selected_system = All
    /\ df = EmptyFrame
    /\ test_columns = <<>>
    /\ all_system = <<>>
    /\ none_system = <<>>
    /\ status_counts = <<>>
    /\ system_availability = <<>>
    /\ total_A = 0
    /\ total_S = 0
    /\ critical_components = <<>>
    /\ screen = {}
    /\ element = NoElement
    /\ exception = NoException

\* df[name] on a frame without that column
KeyError(name, line) == [type |-> "KeyError", key |-> name, line |-> line]

\* An exception raised inside the plotting library
PlotError(line) == [type |-> "PlotError", key |-> <<>>, line |-> line]

Raise(e) ==
    /\ pc' = "raised"
    /\ exception' = e

\* st.dataframe / st.metric / st.pyplot / st.subheader: one more element on the page
Show(name, kind, data) ==
    /\ screen' = screen \cup {name}
    /\ element' = [name |-> name, kind |-> kind, data |-> data]

(***************************************************************************)
(* Lines 28-38: read the file, clean the header, assign the categories.    *)
(***************************************************************************)
ReadFile ==
    /\ pc = "read"
    /\ uploaded_file # NoFile
    /\ df_raw' = assign_categories([columns |-> clean_columns(uploaded_file.columns),
                                    rows    |-> uploaded_file.rows])
    /\ df' = df_raw'
    /\ pc' = "sidebar"
    /\ UNCHANGED <<uploaded_file, selected_section, selected_category, selected_system,
                   test_columns, derived, screen, element, exception>>

\* Lines 198-199: without a file the page asks for one.
AwaitUpload ==
    /\ pc = "read"
    /\ uploaded_file = NoFile
    /\ Show("upload_prompt", "message", <<>>)
    /\ pc' = "done"
    /\ UNCHANGED <<inputs, df, test_columns, derived, exception>>

\* sorted(df[name].dropna().unique().tolist()), as a set
unique_values(frame, name) ==
    { Cell(frame.columns, frame.rows[i], name) : i \in 1..Len(frame.rows) } \ {NaN, None}

(***************************************************************************)
(* Lines 40-47: the sidebar; each select box returns one of its options.   *)
(***************************************************************************)
Sidebar ==
    /\ pc = "sidebar"
    /\ IF ~HasCol(df.columns, SectionCol)
       THEN /\ Raise(KeyError(SectionCol, 42))
            /\ UNCHANGED <<selected_section, selected_category, selected_system>>
       ELSE /\ selected_section' \in {All} \cup unique_values(df, SectionCol)
            /\ selected_category' \in {All} \cup unique_values(df, CategoryCol)
            /\ selected_system' \in {All} \cup Range(test_columns_of(df.columns))
            /\ pc' = "filters"
            /\ UNCHANGED exception
    /\ UNCHANGED <<uploaded_file, df_raw, df, test_columns, derived, screen, element>>

(***************************************************************************)
(* Lines 49-58: section, system-type and category filters, in that order.  *)
(***************************************************************************)
filter_equal(frame, name, value) ==
    select_rows(frame, [i \in 1..Len(frame.rows) |->
                          Cell(frame.columns, frame.rows[i], name) = value])

\* The filters with the categories assigned after the section filter
apply_filters_then_categories(frame, section, system, category) ==
    LET f1 == IF section # All THEN filter_equal(frame, SectionCol, section) ELSE frame
        fc == set_column(f1, CategoryCol, scan_rows(f1.columns, f1.rows, None, <<>>))
        f2 == IF system # All THEN filter_equal(fc, system, <<"A">>) ELSE fc
        f3 == IF category # All THEN filter_equal(f2, CategoryCol, category) ELSE f2
    IN  f3

apply_filters(frame, section, system, category) ==
    LET f1 == IF section # All THEN filter_equal(frame, SectionCol, section) ELSE frame
        f2 == IF system # All THEN filter_equal(f1, system, <<"A">>) ELSE f1
        f3 == IF category # All THEN filter_equal(f2, CategoryCol, category) ELSE f2
    IN  f3

ApplyFilters ==
    /\ pc = "filters"
    /\ df' = apply_filters(df, selected_section, selected_system, selected_category)
    /\ pc' = "drop_headings"
    /\ UNCHANGED <<inputs, test_columns, derived, screen, element, exception>>

(***************************************************************************)
(* Line 62: keep the rows whose Bom Qty converts to a number.              *)
(***************************************************************************)
drop_heading_rows(frame) ==
    select_rows(frame, [i \in 1..Len(frame.rows) |->
                          to_numeric_notna(Cell(frame.columns, frame.rows[i], BomQtyCol))])

DropHeadingRows ==
    /\ pc = "drop_headings"
    /\ IF ~HasCol(df.columns, BomQtyCol)
       THEN Raise(KeyError(BomQtyCol, 62)) /\ UNCHANGED df
       ELSE /\ df' = drop_heading_rows(df)
            /\ pc' = "normalize"
            /\ UNCHANGED exception
    /\ UNCHANGED <<inputs, test_columns, derived, screen, element>>

(***************************************************************************)
(* Lines 65-70: "Available Up To" becomes the first number in its text.    *)
(***************************************************************************)
normalize_available_up_to(frame) ==
    set_column(frame, AvailableUpToCol,
               [i \in 1..Len(frame.rows) |->
                   extract_number(Cell(frame.columns, frame.rows[i], AvailableUpToCol))])

NormalizeAvailableUpTo ==
    /\ pc = "normalize"
    /\ IF ~HasCol(df.columns, AvailableUpToCol)
       THEN Raise(KeyError(AvailableUpToCol, 65)) /\ UNCHANGED df
       ELSE /\ df' = normalize_available_up_to(df)
            /\ pc' = "preview"
            /\ UNCHANGED exception
    /\ UNCHANGED <<inputs, test_columns, derived, screen, element>>

(***************************************************************************)
(* Lines 72-73: the preview of the first 100 rows.                         *)
(***************************************************************************)
PreviewRows == 100

PreviewCols == <<SectionCol, CategoryCol, NomenclatureCol, BomQtyCol, StockCol>>

head(seq, n) == SubSeq(seq, 1, IF Len(seq) < n THEN Len(seq) ELSE n)

\* frame[cols]: the listed columns of each row
project(frame, cols) ==
    [i \in 1..Len(frame.rows) |->
        [idx   |-> frame.rows[i].idx,
         cells |-> [k \in 1..Len(cols) |-> Cell(frame.columns, frame.rows[i], cols[k])]]]

Preview ==
    /\ pc = "preview"
    /\ IF \E k \in 1..Len(PreviewCols) : ~HasCol(df.columns, PreviewCols[k])
       THEN /\ Raise(KeyError(PreviewCols[CHOOSE k \in 1..Len(PreviewCols) :
                                   /\ ~HasCol(df.columns, PreviewCols[k])
                                   /\ \A j \in 1..(k - 1) : HasCol(df.columns, PreviewCols[j])],
                              73))
            /\ UNCHANGED <<screen, element>>
       ELSE /\ Show("preview", "table", head(project(df, PreviewCols), PreviewRows))
            /\ pc' = "metrics"
            /\ UNCHANGED exception
    /\ UNCHANGED <<inputs, df, test_columns, derived>>

(***************************************************************************)
(* Lines 75-88: the test-stage columns, "Available In", the used-in-all    *)
(* and used-in-none rows and the four metrics.                             *)
(***************************************************************************)
RECURSIVE SumSeq(_)
SumSeq(seq) == IF Len(seq) = 0 THEN 0 ELSE Head(seq) + SumSeq(Tail(seq))

\* (row[cols] == code).sum()
count_code(columns, row, cols, code) ==
    Cardinality({k \in 1..Len(cols) : Cell(columns, row, cols[k]) = code})

\* The count per row that leaves out the last of the columns
count_per_row_skipping_last(frame, cols, code) ==
    [i \in 1..Len(frame.rows) |->
        count_code(frame.columns, frame.rows[i], SubSeq(cols, 1, Len(cols) - 1), code)]

\* df[cols].apply(lambda row: (row == code).sum(), axis=1)
count_per_row(frame, cols, code) ==
    [i \in 1..Len(frame.rows) |-> count_code(frame.columns, frame.rows[i], cols, code)]

\* (df[cols] == code).sum(): one total per column
count_per_column(frame, cols, code) ==
    [k \in 1..Len(cols) |->
        Cardinality({i \in 1..Len(frame.rows) :
                        Cell(frame.columns, frame.rows[i], cols[k]) = code})]

available_in(frame, cols) == with_column(frame, AvailableInCol, count_per_row(frame, cols, <<"A">>))

\* Series.mean(): the sum and the number of values (no value: NaN)
mean_of(values) == [sum |-> SumSeq(values), n |-> Len(values)]

\* df[df["Available In"] >= n]
rows_used_in_at_least(frame, n) ==
    select_rows(frame, [i \in 1..Len(frame.rows) |->
                          Cell(frame.columns, frame.rows[i], AvailableInCol) >= n]).rows

\* df[df["Available In"] == n]
rows_used_in(frame, n) == filter_equal(frame, AvailableInCol, n).rows

Metrics ==
    /\ pc = "metrics"
    /\ test_columns' = test_columns_of(df.columns)
    /\ df' = available_in(df, test_columns')
    /\ all_system' = rows_used_in(df', Len(test_columns'))
    /\ none_system' = rows_used_in(df', 0)
    /\ Show("metrics", "metric",
            [total       |-> Len(df'.rows),
             avg         |-> mean_of(column_values(df', AvailableInCol)),
             used_in_all |-> Len(all_system'),
             used_in_none |-> Len(none_system')])
    /\ pc' = "used_in_all"
    /\ UNCHANGED <<inputs, status_counts, system_availability, total_A, total_S,
                   critical_components, exception>>

\* Lines 90-92
UsedInAll ==
    /\ pc = "used_in_all"
    /\ Show("all_system", "table",
            project([columns |-> df.columns, rows |-> all_system],
                    <<NomenclatureCol, AvailableInCol>>))
    /\ pc' = "used_in_none"
    /\ UNCHANGED <<inputs, df, test_columns, derived, exception>>

\* Lines 94-96
UsedInNone ==
    /\ pc = "used_in_none"
    /\ Show("none_system", "table",
            project([columns |-> df.columns, rows |-> none_system],
                    <<NomenclatureCol, AvailableInCol>>))
    /\ pc' = "top_multiuse"
    /\ UNCHANGED <<inputs, df, test_columns, derived, exception>>

(***************************************************************************)
(* sort_values(by, ascending=False).head(10).  pandas sorts with           *)
(* kind="quicksort", which is not stable: rows with equal keys come out in *)
(* an order the sort does not fix.                                         *)
(***************************************************************************)
TopN == 10

Orderings(S) ==
    { p \in [1..Cardinality(S) -> S] : \A i, j \in 1..Cardinality(S) : i # j => p[i] # p[j] }

\* The orders of the rows in which their keys (one per row) descend
sort_values_desc(rows, keys) ==
    { [i \in 1..Len(rows) |-> rows[p[i]]] :
        p \in { q \in Orderings(1..Len(rows)) :
                  \A i, j \in 1..Len(rows) : i < j => keys[q[i]] >= keys[q[j]] } }

\* Lines 99-101
TopMultiuse ==
    /\ pc = "top_multiuse"
    /\ \E sorted \in sort_values_desc(df.rows, column_values(df, AvailableInCol)) :
          Show("top_multiuse", "table",
               project([columns |-> df.columns, rows |-> head(sorted, TopN)],
                       <<NomenclatureCol, AvailableInCol>>))
    /\ pc' = "status_counts"
    /\ UNCHANGED <<inputs, df, test_columns, derived, exception>>

\* Lines 105-109
status_counts_of(frame, cols) ==
    [i \in 1..Len(frame.rows) |->
        [idx       |-> frame.rows[i].idx,
         Component |-> Cell(frame.columns, frame.rows[i], NomenclatureCol),
         Short     |-> count_code(frame.columns, frame.rows[i], cols, <<"S">>),
         Available |-> count_code(frame.columns, frame.rows[i], cols, <<"A">>)]]

StatusCounts ==
    /\ pc = "status_counts"
    /\ status_counts' = status_counts_of(df, test_columns)
    /\ pc' = "top_short"
    /\ UNCHANGED <<inputs, df, test_columns, all_system, none_system, system_availability,
                   total_A, total_S, critical_components, screen, element, exception>>

\* Lines 111, 116-118
TopShort ==
    /\ pc = "top_short"
    /\ \E sorted \in sort_values_desc(status_counts,
                            [i \in 1..Len(status_counts) |-> status_counts[i].Short]) :
          Show("top_short", "table", head(sorted, TopN))
    /\ pc' = "top_available"
    /\ UNCHANGED <<inputs, df, test_columns, derived, exception>>

\* Lines 112, 120-122
TopAvailable ==
    /\ pc = "top_available"
    /\ \E sorted \in sort_values_desc(status_counts,
                            [i \in 1..Len(status_counts) |-> status_counts[i].Available]) :
          Show("top_available", "table", head(sorted, TopN))
    /\ pc' = "system_chart"
    /\ UNCHANGED <<inputs, df, test_columns, derived, exception>>

(***************************************************************************)
(* Lines 124-135: per test-stage column, the number of "A" and of "S", as  *)
(* a bar chart.  Whether the plotting library draws a chart of no bars or  *)
(* raises depends on its version: both outcomes are possible.              *)
(***************************************************************************)
system_availability_of(frame, cols) ==
    [k \in 1..Len(cols) |->
        [system    |-> cols[k],
         Available |-> count_per_column(frame, cols, <<"A">>)[k],
         Short     |-> count_per_column(frame, cols, <<"S">>)[k]]]

SystemChart ==
    /\ pc = "system_chart"
    /\ system_availability' = system_availability_of(df, test_columns)
    /\ \/ /\ Show("system_chart", "chart", system_availability')
          /\ pc' = "pie_chart"
          /\ UNCHANGED exception
       \/ /\ Len(system_availability') = 0
          /\ Raise(PlotError(132))
          /\ UNCHANGED <<screen, element>>
    /\ UNCHANGED <<inputs, df, test_columns, all_system, none_system, status_counts,
                   total_A, total_S, critical_components>>

(***************************************************************************)
(* Lines 137-145: the totals of "A" and of "S" over every test-stage cell, *)
(* as a pie chart (of two zeros when there is neither).                    *)
(***************************************************************************)
PieChart ==
    /\ pc = "pie_chart"
    /\ total_A' = SumSeq(count_per_column(df, test_columns, <<"A">>))
    /\ total_S' = SumSeq(count_per_column(df, test_columns, <<"S">>))
    /\ \/ /\ Show("pie_chart", "chart", <<total_A', total_S'>>)
          /\ pc' = "section_chart"
          /\ UNCHANGED exception
       \/ /\ total_A' + total_S' = 0
          /\ Raise(PlotError(143))
          /\ UNCHANGED <<screen, element>>
    /\ UNCHANGED <<inputs, df, test_columns, all_system, none_system, status_counts,
                   system_availability, critical_components>>

(***************************************************************************)
(* Lines 147-165: the mean "Available Up To" per Section and per Category  *)
(* (groupby drops the rows whose key is missing; the mean skips missing    *)
(* values), the second sorted ascending with the missing means last.       *)
(***************************************************************************)
RECURSIVE Flatten(_)
Flatten(seqs) == IF Len(seqs) = 0 THEN <<>> ELSE Head(seqs) \o Flatten(Tail(seqs))

group_mean(frame, by, value) ==
    [g \in unique_values(frame, by) |->
        mean_of(Flatten(column_values(filter_equal(frame, by, g), value)))]

\* a <= b for two means, a missing mean being the largest
mean_le(a, b) == b.n = 0 \/ (a.n # 0 /\ a.sum * b.n <= b.sum * a.n)

sort_means(means) ==
    { p \in Orderings(DOMAIN means) :
        \A i, j \in 1..Len(p) : i < j => mean_le(means[p[i]], means[p[j]]) }

SectionChart ==
    /\ pc = "section_chart"
    /\ LET section_availability == group_mean(df, SectionCol, AvailableUpToCol)
       IN  \/ /\ Show("section_chart", "chart", section_availability)
              /\ pc' = "category_chart"
              /\ UNCHANGED exception
           \/ /\ DOMAIN section_availability = {}
              /\ Raise(PlotError(152))
              /\ UNCHANGED <<screen, element>>
    /\ UNCHANGED <<inputs, df, test_columns, derived>>

CategoryChart ==
    /\ pc = "category_chart"
    /\ LET means == group_mean(df, CategoryCol, AvailableUpToCol)
       IN  \/ /\ \E order \in sort_means(means) :
                    Show("category_chart", "chart",
                         [i \in 1..Len(order) |-> <<order[i], means[order[i]]>>])
              /\ pc' = "heatmap"
              /\ UNCHANGED exception
           \/ /\ DOMAIN means = {}
              /\ Raise(PlotError(162))
              /\ UNCHANGED <<screen, element>>
    /\ UNCHANGED <<inputs, df, test_columns, derived>>

(***************************************************************************)
(* Lines 167-183: the heatmap: one row per component, named by its         *)
(* Nomenclature, "A" as 1, "S" as 0, "" as None, any other code unchanged. *)
(* An image of no rows, of no columns or with a cell that is not a number  *)
(* is drawn or refused, depending on the plotting library.                 *)
(***************************************************************************)
heat_value(c) ==
    CASE c = <<"A">> -> 1
      [] c = <<"S">> -> 0
      [] c = <<>>    -> None
      [] OTHER       -> c

heatmap_data_of(frame, cols) ==
    [i \in 1..Len(frame.rows) |->
        [index |-> Cell(frame.columns, frame.rows[i], NomenclatureCol),
         cells |-> [k \in 1..Len(cols) |->
                      heat_value(Cell(frame.columns, frame.rows[i], cols[k]))]]]

heatmap_is_numeric(frame, cols) ==
    /\ Len(frame.rows) > 0
    /\ Len(cols) > 0
    /\ \A i \in 1..Len(frame.rows), k \in 1..Len(cols) :
          Cell(frame.columns, frame.rows[i], cols[k]) \in {<<"A">>, <<"S">>, NaN}

Heatmap ==
    /\ pc = "heatmap"
    /\ \/ /\ Show("heatmap", "chart", heatmap_data_of(df, test_columns))
          /\ pc' = "critical"
          /\ UNCHANGED exception
       \/ /\ ~heatmap_is_numeric(df, test_columns)
          /\ Raise(PlotError(174))
          /\ UNCHANGED <<screen, element>>
    /\ UNCHANGED <<inputs, df, test_columns, derived>>

(***************************************************************************)
(* Lines 185-192: the components with no stock or available nowhere.      *)
(***************************************************************************)
\* Line 186 with & in place of |
critical_components_with_and(frame) ==
    SelectSeq(frame.rows,
              LAMBDA row : /\ Cell(frame.columns, row, StockCol) = 0
                           /\ Cell(frame.columns, row, AvailableInCol) = 0)

critical_components_of(frame) ==
    SelectSeq(frame.rows,
              LAMBDA row : \/ Cell(frame.columns, row, StockCol) = 0
                           \/ Cell(frame.columns, row, AvailableInCol) = 0)

Critical ==
    /\ pc = "critical"
    /\ critical_components' = critical_components_of(df)
    /\ IF critical_components' # <<>>
       THEN Show("critical_components", "table",
                 project([columns |-> df.columns, rows |-> critical_components'],
                         <<NomenclatureCol, StockCol, AvailableInCol>>))
       ELSE Show("no_critical_components", "message", <<>>)
    /\ pc' = "download"
    /\ UNCHANGED <<inputs, df, test_columns, all_system, none_system, status_counts,
                   system_availability, total_A, total_S, exception>>

(***************************************************************************)
(* Lines 194-197: the filtered table as CSV (header, no index column).     *)
(***************************************************************************)
to_csv(frame) == <<frame.columns>> \o [i \in 1..Len(frame.rows) |-> frame.rows[i].cells]

Download ==
    /\ pc = "download"
    /\ screen' = screen \cup {"download", "analysis_complete"}
    /\ element' = [name |-> "download", kind |-> "button", data |-> to_csv(df)]
    /\ pc' = "done"
    /\ UNCHANGED <<inputs, df, test_columns, derived, exception>>

Next ==
    \/ AwaitUpload
    \/ ReadFile
    \/ Sidebar
    \/ ApplyFilters
    \/ DropHeadingRows
    \/ NormalizeAvailableUpTo
    \/ Preview
    \/ Metrics
    \/ UsedInAll
    \/ UsedInNone
    \/ TopMultiuse
    \/ StatusCounts
    \/ TopShort
    \/ TopAvailable
    \/ SystemChart
    \/ PieChart
    \/ SectionChart
    \/ CategoryChart
    \/ Heatmap
    \/ Critical
    \/ Download

Spec == Init /\ [][Next]_vars

(***************************************************************************)
(* Properties.                                                             *)
(***************************************************************************)
Started == pc # "read" /\ uploaded_file # NoFile

\* The filters and the drop of the heading rows have run.
Filtered == Started /\ pc \notin {"read", "sidebar", "filters", "drop_headings"}
            /\ (pc = "raised" => exception.line > 62)

\* The rows of the uploaded table, under the cleaned header.
RawRow(i) == df_raw.rows[i]

RawCell(i, name) == Cell(df_raw.columns, RawRow(i), name)

\* The Bom Qty text without dashes and spaces is empty or not all digits.
HeadingText(v) ==
    LET t == SelectSeq(str(v), LAMBDA c : c \notin {"-", " "})
    IN  Len(t) = 0 \/ \E k \in 1..Len(t) : t[k] \notin Digits

IsHeadingRow(i) == HeadingText(RawCell(i, BomQtyCol))

\* The Category a row is due: none for a heading and for a row with no
\* heading above it, else the upper-cased, trimmed Nomenclature of the
\* nearest heading above.
ExpectedCategory(i) ==
    IF IsHeadingRow(i) \/ \A j \in 1..(i - 1) : ~IsHeadingRow(j)
    THEN None
    ELSE LET h == CHOOSE j \in 1..(i - 1) :
                    IsHeadingRow(j) /\ \A k \in (j + 1)..(i - 1) : ~IsHeadingRow(k)
         IN  upper(strip(str(RawCell(h, NomenclatureCol))))

HasNameAndQty == HasCol(df_raw.columns, NomenclatureCol) /\ HasCol(df_raw.columns, BomQtyCol)

\* C1: after category assignment every row carries the Category it is due:
\* none on a heading row and on a row above the first heading, else the
\* upper-cased trimmed Nomenclature of the most recent heading above it.
C1_CategoryOfNearestHeading ==
    (Started /\ HasNameAndQty) =>
        /\ Len(df_raw.rows) = Len(uploaded_file.rows)
        /\ \A i \in 1..Len(df_raw.rows) : RawCell(i, CategoryCol) = ExpectedCategory(i)

\* A quantity above the first heading, a heading whose Bom Qty is dashes and
\* blanks only, and a quantity under it.
C1_Witness ==
    /\ Started /\ HasNameAndQty
    /\ Len(df_raw.rows) = 3
    /\ RawCell(1, BomQtyCol) = <<" ","3"," ">> /\ RawCell(1, CategoryCol) = None
    /\ RawCell(2, BomQtyCol) = <<"-"," ","-">> /\ RawCell(2, CategoryCol) = None
    /\ RawCell(3, BomQtyCol) = <<"-","5">>
    /\ RawCell(3, CategoryCol) = <<"P","U","M","P">>

HasRequiredCols == \A k \in 1..Len(RequiredCols) : HasCol(df_raw.columns, RequiredCols[k])

\* Row i of the uploaded table passes the three sidebar filters.
Selected(i) ==
    /\ selected_section = All \/ RawCell(i, SectionCol) = selected_section
    /\ selected_system = All \/ RawCell(i, selected_system) = <<"A">>
    /\ selected_category = All \/ RawCell(i, CategoryCol) = selected_category

\* The row of df that came from row i of the uploaded table, if any.
InDf(i) == \E k \in 1..Len(df.rows) : df.rows[k].idx = RawRow(i).idx

\* C2: of the rows that pass the sidebar filters, the drop of the heading
\* rows removes exactly those that category assignment took for headings.
C2_HeadingIffDropped ==
    (Filtered /\ HasRequiredCols) =>
        \A i \in 1..Len(df_raw.rows) : Selected(i) => (IsHeadingRow(i) <=> ~InDf(i))

\* C3: a table without test-stage columns shows neither the metrics nor the
\* system chart nor the heatmap, and a finished run has reported that no
\* test-stage column was found.
C3_NoTestColumnsReported ==
    (Started /\ HasRequiredCols /\ test_columns_of(df_raw.columns) = <<>>) =>
        /\ screen \cap {"metrics", "system_chart", "heatmap"} = {}
        /\ exception = NoException
        /\ pc = "done" => "no_test_columns" \in screen

DataElements ==
    {"metrics", "all_system", "none_system", "top_multiuse", "top_short",
     "top_available", "system_chart", "pie_chart", "section_chart",
     "category_chart", "heatmap", "critical_components"}

\* C4: when no row is left after the filters, no table or chart is built
\* from the empty table and nothing raises.
C4_EmptyTableShowsNoData ==
    (Filtered /\ HasRequiredCols /\ Len(df.rows) = 0) =>
        /\ screen \cap DataElements = {}
        /\ exception = NoException

\* C5: a table that lacks a required column never ends in a KeyError.
C5_MissingColumnReported == Started /\ ~HasRequiredCols => exception.type # "KeyError"

\* The pie chart's totals have been computed.
PieDone ==
    /\ Started
    /\ \/ pc \in {"section_chart", "category_chart", "heatmap", "critical",
                  "download", "done"}
       \/ pc = "raised" /\ exception.line >= 143

\* C6: the "Available In" of the rows, the "A" totals of the test-stage
\* columns and total_A add up to the same number; so do the Short Counts of
\* the rows, the "S" totals of the columns and total_S.
C6_RowAndColumnTotalsAgree ==
    PieDone =>
        /\ SumSeq(column_values(df, AvailableInCol)) = total_A
        /\ SumSeq([k \in 1..Len(system_availability) |-> system_availability[k].Available])
              = total_A
        /\ SumSeq([i \in 1..Len(status_counts) |-> status_counts[i].Available]) = total_A
        /\ SumSeq([i \in 1..Len(status_counts) |-> status_counts[i].Short]) = total_S
        /\ SumSeq([k \in 1..Len(system_availability) |-> system_availability[k].Short])
              = total_S

\* Three rows over two test-stage columns with "A", "S" and other codes.
C6_Witness ==
    /\ PieDone
    /\ Len(df.rows) = 3 /\ Len(test_columns) = 2
    /\ total_A = 3 /\ total_S = 2
    /\ system_availability[1].Available = 2 /\ system_availability[2].Available = 1
    /\ \E i \in 1..3 : status_counts[i].Available + status_counts[i].Short < 2

\* The test-stage cells of row i of the uploaded table that hold "A".
TestPositions == {k \in 1..Len(df_raw.columns) : contains(df_raw.columns[k], TestMarker)}

CountA(i) == Cardinality({k \in TestPositions : RawRow(i).cells[k] = <<"A">>})

Survivors ==
    {i \in 1..Len(df_raw.rows) : Selected(i) /\ to_numeric_notna(RawCell(i, BomQtyCol))}

\* C7: the metrics show the number of rows left by the filters, the number
\* of them with "A" in every test-stage column and the number with no "A".
C7_MetricsCountRows ==
    element.name = "metrics" =>
        /\ element.data.total = Cardinality(Survivors)
        /\ element.data.used_in_all =
              Cardinality({i \in Survivors : CountA(i) = Cardinality(TestPositions)})
        /\ element.data.used_in_none = Cardinality({i \in Survivors : CountA(i) = 0})
        /\ Len(all_system) = element.data.used_in_all
        /\ Len(none_system) = element.data.used_in_none

\* A heading with Bom Qty "-", then a row with ("A", "S") and a row with
\* ("A", "A"): two rows of category ENGINE, available in 1 and in 2.
C7_Witness ==
    /\ element.name = "metrics"
    /\ Len(uploaded_file.rows) = 3
    /\ RawCell(1, BomQtyCol) = <<"-">>
    /\ selected_section = All /\ selected_category = All /\ selected_system = All
    /\ column_values(df, AvailableInCol) = <<1, 2>>
    /\ column_values(df, CategoryCol) = << <<"E","N","G","I","N","E">>, <<"E","N","G","I","N","E">> >>
    /\ element.data.total = 2
    /\ element.data.used_in_all = 1
    /\ element.data.used_in_none = 0

\* The rows in descending order of key, rows of equal key in their order.
StableDesc(rows, keys) ==
    LET p == CHOOSE q \in Orderings(1..Len(rows)) :
                \A i, j \in 1..Len(rows) :
                    i < j => \/ keys[q[i]] > keys[q[j]]
                             \/ keys[q[i]] = keys[q[j]] /\ q[i] < q[j]
    IN  [i \in 1..Len(rows) |-> rows[p[i]]]

\* C8: each top-10 table lists the rows of largest count in descending
\* order, rows of equal count in their original order.
C8_TopTablesKeepRowOrder ==
    /\ element.name = "top_multiuse" =>
          element.data =
             project([columns |-> df.columns,
                      rows    |-> head(StableDesc(df.rows,
                                                    column_values(df, AvailableInCol)),
                                       TopN)],
                     <<NomenclatureCol, AvailableInCol>>)
    /\ element.name = "top_short" =>
          element.data = head(StableDesc(status_counts,
                                         [i \in 1..Len(status_counts) |->
                                             status_counts[i].Short]), TopN)
    /\ element.name = "top_available" =>
          element.data = head(StableDesc(status_counts,
                                         [i \in 1..Len(status_counts) |->
                                             status_counts[i].Available]), TopN)

\* The critical components have been computed.
CriticalDone == Started /\ pc \in {"download", "done"}

\* C9: the critical components are the rows with Stock 0 or Available In 0,
\* each once and in their order; the page says that there is none exactly
\* when there is none.
C9_CriticalIsStockOrAvailability ==
    CriticalDone =>
        /\ \A i \in 1..Len(df.rows) :
              (\E j \in 1..Len(critical_components) : critical_components[j] = df.rows[i])
              <=> \/ Cell(df.columns, df.rows[i], StockCol) = 0
                  \/ Cell(df.columns, df.rows[i], AvailableInCol) = 0
        /\ \A j \in 1..Len(critical_components) :
              \E i \in 1..Len(df.rows) : critical_components[j] = df.rows[i]
        /\ \A i, j \in 1..Len(critical_components) :
              i < j => critical_components[i].idx < critical_components[j].idx
        /\ "no_critical_components" \in screen <=> critical_components = <<>>
        /\ "critical_components" \in screen <=> critical_components # <<>>

\* Stock 0 and available, stock 5 and available nowhere, stock 5 and
\* available: the first two rows are critical.
C9_Witness ==
    /\ CriticalDone
    /\ column_values(df, StockCol) = <<0, 5, 5>>
    /\ column_values(df, AvailableInCol) = <<2, 0, 2>>
    /\ Len(critical_components) = 2
    /\ critical_components[1] = df.rows[1]
    /\ critical_components[2] = df.rows[2]
    /\ "critical_components" \in screen

\* The three sidebar filters have run.
FiltersDone ==
    /\ Started
    /\ pc \notin {"read", "sidebar", "filters"}
    /\ pc = "raised" => exception.line >= 62

\* C10: a row left by the filters carries the Category it was due in the
\* whole uploaded table, whatever the selection; the rows left keep their
\* order; under a selected Category every row left has that Category.
C10_CategoryFixedBeforeFilters ==
    (FiltersDone /\ HasNameAndQty) =>
        /\ \A k \in 1..Len(df.rows) :
              Cell(df.columns, df.rows[k], CategoryCol) = ExpectedCategory(df.rows[k].idx + 1)
        /\ \A k, l \in 1..Len(df.rows) : k < l => df.rows[k].idx < df.rows[l].idx
        /\ selected_category # All =>
              \A k \in 1..Len(df.rows) :
                 Cell(df.columns, df.rows[k], CategoryCol) = selected_category

\* A section and a category are selected, and a row is left whose heading
\* is a row of another section.
C10_Witness ==
    /\ Filtered /\ HasNameAndQty
    /\ selected_section # All
    /\ selected_category # All
    /\ \E k \in 1..Len(df.rows) :
          /\ ~IsHeadingRow(df.rows[k].idx + 1)
          /\ \E h \in 1..df.rows[k].idx :
                /\ IsHeadingRow(h)
                /\ \A m \in (h + 1)..df.rows[k].idx : ~IsHeadingRow(m)
                /\ RawCell(h, SectionCol) # selected_section

====
